---- MODULE Spec2Model ----
(***************************************************************************)
(* proxy_spray.py: load proxies, then send one probe per scheme-matching   *)
(* (proxy, target) pair through a pool of process_count workers, polling   *)
(* for completed results.                                                  *)
(*                                                                         *)
(* Python values.  A str is a tuple of one-character strings, so that the  *)
(* regular expressions, strip, split and startswith of the source are      *)
(* computed character by character.  Where the source can hold a str or a  *)
(* dict in the same place (the value of a proxy dict) the value is tagged: *)
(* PyStr(s) or PyDict(k, v), a dict with the single key k.                 *)
(* A Python tuple t is a TLA+ tuple; t[i] in the source is t[i+1] here.    *)
(***************************************************************************)
EXTENDS Integers, Sequences, FiniteSets, TLC

VARIABLES
    proxy_urls,        \* args.proxy_urls: the values `for p in` (line 254) has yet to read
    infile,            \* the open file: the lines `for proxy in` (line 260) has yet to read
    display_failures,  \* args.display_failures
    process_count,     \* args.process_count
    no_assume_http,    \* args.no_assume_http
    no_assume_https,   \* args.no_assume_https
    target_arg,        \* the value `t` that parseTarget is called with (line 289)
    headers,           \* the dict of line 295
    targets,           \* the list `targets` (line 277), as filled by lines 278-289
    pc,                \* position of the main thread
    exc,               \* the exception that ended the main thread, or "None"
    proxies,           \* the list `proxies` (line 253)
    pi,                \* position of `for proxy in proxies` (line 325)
    ti,                \* position of `for target in targets` (line 327)
    tasks,             \* every AsyncResult made by pool.apply_async, by creation order,
                       \* with the pair it was made for and what its request did
    results,           \* the list `results` (line 321): indexes into tasks
    si,                \* position of `for res in results` (line 338)
    to_del,            \* the list `to_del` (line 337)
    handed,            \* history: the calls of printResult, in order
    stdout             \* the lines printed to standard output

vars == <<proxy_urls, infile, display_failures, process_count, no_assume_http,
          no_assume_https, target_arg, headers, targets, pc, exc,
          proxies, pi, ti, tasks, results, si, to_del, handed, stdout>>

(***************************************************************************)
(* Bounds of the model.                                                    *)
(***************************************************************************)
MaxProxyArgs == 2
MaxTargets == 3
MaxWindow == 2
MaxHeaders == 1

(***************************************************************************)
(* Strings.                                                                *)
(***************************************************************************)
s_http == <<"h", "t", "t", "p">>
s_https == <<"h", "t", "t", "p", "s">>
s_sep == <<":", "/", "/">>

PyStr(s) == [type |-> "str", s |-> s]
PyDict(k, v) == [type |-> "dict", key |-> k, value |-> v]
None == [type |-> "None"]

\* str.lower() on the letters the model's inputs use
lower(c) ==
    CASE c = "H" -> "h"
      [] c = "T" -> "t"
      [] c = "P" -> "p"
      [] c = "S" -> "s"
      [] OTHER -> c

Lowered(s) == [i \in 1..Len(s) |-> lower(s[i])]

startswith(s, prefix) ==
    /\ Len(s) >= Len(prefix)
    /\ SubSeq(s, 1, Len(prefix)) = prefix

whitespace == {" ", "\t", "\n", "\r"}

RECURSIVE lstrip(_)
lstrip(s) ==
    IF s # <<>> /\ Head(s) \in whitespace THEN lstrip(Tail(s)) ELSE s

RECURSIVE rstrip(_)
rstrip(s) ==
    IF s # <<>> /\ s[Len(s)] \in whitespace
    THEN rstrip(SubSeq(s, 1, Len(s) - 1))
    ELSE s

strip(s) == rstrip(lstrip(s))

\* s.split(c)[0]: the characters before the first c
RECURSIVE splitFirst(_, _)
splitFirst(s, c) ==
    IF s = <<>> \/ Head(s) = c THEN <<>> ELSE <<Head(s)>> \o splitFirst(Tail(s), c)


(***************************************************************************)
(* The environment: the files Path(s).is_file() finds, as the lines that   *)
(* iterating over the open file yields, and the values the command line    *)
(* and the proxied requests can supply.                                    *)
(***************************************************************************)
f_a == <<"f", "a">>
f_b == <<"f", "b">>
f_c == <<"f", "c">>
f_t == <<"f", "t">>
f_h == <<"f", "h">>
f_g == <<"f", "g">>

\* "K: v"
s_header == <<"K", ":", " ", "v">>

files ==
    (f_a :> << s_http \o s_sep \o <<"a", "\n">>,
               s_https \o s_sep \o <<"b", "\n">>,
               s_http \o s_sep \o <<"a", "\n">> >>)
    @@ (f_b :> << <<" ">> \o s_http \o s_sep \o <<"a", "\n">>,
                  <<"H", "T", "T", "P">> \o s_sep \o <<"c">> >>)
    @@ (f_c :> << s_https \o s_sep \o <<"b", "\n">>,
                  <<"\n">> >>)
    @@ (f_t :> << <<" ">> \o s_http \o s_sep \o <<"t", "\n">> >>)
    @@ (f_h :> << s_header >>)
    @@ (f_g :> << s_header \o <<"\n">>, s_header >>)

ProxyArgValues ==
    { s_http \o s_sep \o <<"a">>, <<"a">>, f_a, f_b, f_c }

TargetValues ==
    { s_http \o s_sep \o <<"t">>, <<"t">> }

\* the values of args.targets of a whole run: the two assumptions are
\* disabled there, so that the address gives no target
TargetArgValues ==
    TargetValues \cup { f_t, <<"1", "0", ".", "0", ".", "0", ".", "1">>, <<"t", "/">> }

\* the values of args.http_headers
HeaderArgValues ==
    { s_header, <<"K", ":", "v">>, f_h, f_g }

\* "10.0.0.", the first three octets of the addresses used as targets
s_net == <<"1", "0", ".", "0", ".", "0", ".">>

\* values of one element of args.targets handed to parseTarget
RawTargets ==
    { s_net \o <<"0", "/", "3", "0">>,           \* 10.0.0.0/30
      s_net \o <<"5", "/", "3", "1">>,           \* 10.0.0.5/31
      s_net \o <<"9", "/", "3", "2">>,           \* 10.0.0.9/32
      s_net \o <<"1">>,                          \* 10.0.0.1
      s_net \o <<"0", "/", "3", "3">>,           \* 10.0.0.0/33
      s_net \o <<"0", "/">>,                     \* 10.0.0.0/
      s_net \o <<"0", "/", "2", "5", "5">>,      \* 10.0.0.0/255
      s_net \o <<"2", "5", "6">>,                \* 10.0.0.256
      s_net \o <<"0", "/", "3", "1", "\n">>,     \* 10.0.0.0/31 and a newline
      s_net \o <<"1", "\n">>,                    \* 10.0.0.1 and a newline
      <<"t">>,                                   \* t
      <<"t", "/">>,                              \* t/
      <<"t", "/", "x">>,                         \* t/x
      <<"h", "t", "t", "p", "t">>,               \* httpt
      s_http \o s_sep \o <<"t">>,                \* http://t
      s_https \o s_sep \o <<"t">>,               \* https://t
      s_http \o s_sep \o <<"t", "/">>,           \* http://t/
      s_http \o s_sep \o <<"t", "/", "3", "0">>  \* http://t/30
    }

\* what requests.get does: raise, or return a response with a status code
Outcomes ==
    { [raised |-> TRUE, status_code |-> 0],
      [raised |-> FALSE, status_code |-> 200],
      [raised |-> FALSE, status_code |-> 403],
      [raised |-> FALSE, status_code |-> 404] }

\* the request of a task that has not finished has done neither
NoOutcome == [raised |-> FALSE, status_code |-> 0]

SeqsUpTo(S, lo, hi) == UNION { [1..n -> S] : n \in lo..hi }

(***************************************************************************)
(* Function definitions (lines 98-232).                                    *)
(***************************************************************************)

\* re.search('^(https?://)(.+)', s, re.I): the length of group 1, 0 for no match
\* ('.' matches any character but a newline)
proxyMatch(s) ==
    LET l == Lowered(s)
        after(n) == Len(s) > n /\ s[n + 1] # "\n"
    IN  IF startswith(l, s_https \o s_sep) /\ after(8) THEN 8
        ELSE IF startswith(l, s_http \o s_sep) /\ after(7) THEN 7
        ELSE 0

\* the tuple (scheme, url), or the AssertionError of line 104
parseProxy(s) ==
    LET n == proxyMatch(s) IN
    IF n = 0
    THEN [raised |-> TRUE, value |-> <<>>]
    ELSE [raised |-> FALSE, value |-> <<splitFirst(SubSeq(s, 1, n), ":"), s>>]

isFile(s) == s \in DOMAIN files

\* re.search('^(https?)', v): group 1, <<>> for no match
schemeMatch(v) ==
    IF startswith(v, s_https) THEN s_https
    ELSE IF startswith(v, s_http) THEN s_http
    ELSE <<>>

\* v0 is a tagged value, v1 a str; re.search raises TypeError on a dict
compareSchemes(v0, v1) ==
    IF v0.type # "str"
    THEN [raised |-> TRUE, value |-> FALSE]
    ELSE LET rv0 == schemeMatch(v0.s)
             rv1 == schemeMatch(v1)
         IN  [raised |-> FALSE,
              value |-> rv0 # <<>> /\ rv1 # <<>> /\ rv0 = rv1]

\* genericRequestsCallback without the test of line 226
genericRequestsCallback_No403(proxy, target, outcome) ==
    IF outcome.raised
    THEN <<FALSE, proxy, target, None, [type |-> "Exception", msg |-> "request error"]>>
    ELSE <<TRUE, proxy, target,
           [type |-> "Response", status_code |-> outcome.status_code], None>>

\* the tuple (True/False, proxy, target, resp, e)
genericRequestsCallback(proxy, target, outcome) ==
    IF outcome.raised
    THEN <<FALSE, proxy, target, None, [type |-> "Exception", msg |-> "request error"]>>
    ELSE IF outcome.status_code = 403
    THEN <<FALSE, proxy, target, None,
           [type |-> "Exception", msg |-> "403 Forbidden Response"]>>
    ELSE <<TRUE, proxy, target,
           [type |-> "Response", status_code |-> outcome.status_code], None>>

s_via == <<" ", ">", "-", "-", "[", "V", "I", "A", "]", "-", "-", ">", " ">>

\* printResult with `else` for the `elif` of line 195
printResult_IgnoresFlag(out, flag) ==
    IF out[2].value.type # "str"
    THEN [raised |-> TRUE, lines |-> <<>>]
    ELSE LET s == out[3] \o s_via \o out[2].value.s IN
         IF out[1]
         THEN [raised |-> FALSE, lines |-> << <<"SUCCESS: ", s>> >>]
         ELSE [raised |-> FALSE, lines |-> << <<"FAILURE: ", s>> >>]

\* the lines printResult(out) prints, or the TypeError of concatenating a dict
printResult(out, flag) ==
    IF out[2].value.type # "str"
    THEN [raised |-> TRUE, lines |-> <<>>]
    ELSE LET s == out[3] \o s_via \o out[2].value.s IN
         IF out[1]
         THEN [raised |-> FALSE, lines |-> << <<"SUCCESS: ", s>> >>]
         ELSE IF flag
         THEN [raised |-> FALSE, lines |-> << <<"FAILURE: ", s>> >>]
         ELSE [raised |-> FALSE, lines |-> <<>>]

(***************************************************************************)
(* Targets: the ipaddress module and parseTarget (lines 107-132, 144-178). *)
(* An IPv4 address is its 32-bit number.                                   *)
(***************************************************************************)
digits == <<"0", "1", "2", "3", "4", "5", "6", "7", "8", "9">>

isDigit(c) == \E d \in 1..10 : digits[d] = c

digitValue(c) == (CHOOSE d \in 1..10 : digits[d] = c) - 1

\* int(s) of a string of decimal digits
RECURSIVE toInt(_)
toInt(s) ==
    IF s = <<>> THEN 0 ELSE 10 * toInt(SubSeq(s, 1, Len(s) - 1)) + digitValue(s[Len(s)])

\* str(n) of a number n >= 0
RECURSIVE toStr(_)
toStr(n) ==
    IF n < 10 THEN <<digits[n + 1]>> ELSE toStr(n \div 10) \o <<digits[(n % 10) + 1]>>

\* s.split(c): every part of s between the occurrences of c
RECURSIVE split(_, _)
split(s, c) ==
    LET first == splitFirst(s, c) IN
    IF Len(first) = Len(s) THEN <<s>>
    ELSE <<first>> \o split(SubSeq(s, Len(first) + 2, Len(s)), c)

allDigits(s) == \A i \in 1..Len(s) : isDigit(s[i])

\* one octet of a dotted quad: 1 to 3 digits, no leading zero, at most 255
isOctet(s) ==
    /\ Len(s) \in 1..3
    /\ allDigits(s)
    /\ Len(s) > 1 => s[1] # "0"
    /\ toInt(s) <= 255

\* ipaddress.IPv4Address(s): the number of the address, -1 for AddressValueError
IPv4Address(s) ==
    LET octets == split(s, ".") IN
    IF Len(octets) = 4 /\ \A i \in 1..4 : isOctet(octets[i])
    THEN ((toInt(octets[1]) * 256 + toInt(octets[2])) * 256 + toInt(octets[3])) * 256
         + toInt(octets[4])
    ELSE -1

\* str(ip) of an IPv4Address
ipToStr(ip) ==
    toStr(ip \div (256 * 256 * 256)) \o <<".">>
    \o toStr((ip \div (256 * 256)) % 256) \o <<".">>
    \o toStr((ip \div 256) % 256) \o <<".">>
    \o toStr(ip % 256)

\* ipaddress.IPv4Network(s, strict=False): the first address and the number
\* of addresses of the network, or a ValueError (more than one '/', a bad
\* address, or a prefix that is not a number of 0..32)
IPv4Network(s) ==
    LET parts == split(s, "/")
        addr == IF Len(parts) = 2 THEN IPv4Address(parts[1]) ELSE -1
        okPrefix == /\ Len(parts) = 2
                    /\ parts[2] # <<>>
                    /\ allDigits(parts[2])
                    /\ toInt(parts[2]) <= 32
    IN  IF addr < 0 \/ ~okPrefix
        THEN [raised |-> TRUE, first |-> 0, size |-> 0]
        ELSE LET size == 2 ^ (32 - toInt(parts[2])) IN
             [raised |-> FALSE, first |-> addr - (addr % size), size |-> size]

\* re.search('/[0-9]{,2}$', t): '$' is the end, or just before a last newline
cidrMatch(t) ==
    LET e == IF t # <<>> /\ t[Len(t)] = "\n" THEN Len(t) - 1 ELSE Len(t)
        at(n) == /\ e - n >= 1
                 /\ t[e - n] = "/"
                 /\ \A i \in (e - n + 1)..e : isDigit(t[i])
    IN  at(0) \/ at(1) \/ at(2)

\* assumeIPTarget with the two appends in the other order
assumeIPTarget_HttpsFirst(ip) ==
    (IF ~no_assume_https THEN <<s_https \o s_sep \o ipToStr(ip)>> ELSE <<>>)
    \o (IF ~no_assume_http THEN <<s_http \o s_sep \o ipToStr(ip)>> ELSE <<>>)

\* lines 107-115, for the address number ip
assumeIPTarget(ip) ==
    (IF ~no_assume_http THEN <<s_http \o s_sep \o ipToStr(ip)>> ELSE <<>>)
    \o (IF ~no_assume_https THEN <<s_https \o s_sep \o ipToStr(ip)>> ELSE <<>>)

\* assumeURLTarget looking for the whole "http://" and "https://" prefixes
assumeURLTarget_WholeScheme(t) ==
    (IF ~no_assume_http /\ ~startswith(t, s_http \o s_sep)
     THEN <<s_http \o s_sep \o t>> ELSE <<>>)
    \o (IF ~no_assume_https /\ ~startswith(t, s_https \o s_sep)
        THEN <<s_https \o s_sep \o t>> ELSE <<>>)

\* lines 117-132
assumeURLTarget(t) ==
    (IF ~no_assume_http /\ ~startswith(t, s_http) /\ ~startswith(t, s_https)
     THEN <<s_http \o s_sep \o t>> ELSE <<>>)
    \o (IF ~no_assume_https /\ ~startswith(t, s_https) /\ ~startswith(t, s_http)
        THEN <<s_https \o s_sep \o t>> ELSE <<>>)

\* lines 163-166: output += assumeIPTarget(ip) for the n addresses from ip on
RECURSIVE expandNetwork(_, _)
expandNetwork(ip, n) ==
    IF n = 0 THEN <<>> ELSE assumeIPTarget(ip) \o expandNetwork(ip + 1, n - 1)

\* lines 144-178: the list of targets, or the ValueError of line 151
parseTarget(t) ==
    IF cidrMatch(t)
    THEN LET net == IPv4Network(t) IN
         IF net.raised
         THEN [raised |-> TRUE, value |-> <<>>]
         ELSE [raised |-> FALSE, value |-> expandNetwork(net.first, net.size)]
    ELSE IF IPv4Address(t) >= 0
    THEN [raised |-> FALSE, value |-> assumeIPTarget(IPv4Address(t))]
    ELSE LET nt == assumeURLTarget(t) IN
         [raised |-> FALSE, value |-> IF nt = <<>> THEN <<t>> ELSE nt]

\* the calls parseTarget(...) of lines 285 and 289 over the values ts of
\* args.targets, in order: the stripped lines of a file, or the value
RECURSIVE targetCalls(_)
targetCalls(ts) ==
    IF ts = <<>> THEN <<>>
    ELSE (IF isFile(Head(ts))
          THEN [i \in 1..Len(files[Head(ts)]) |-> strip(files[Head(ts)][i])]
          ELSE <<Head(ts)>>)
         \o targetCalls(Tail(ts))

\* targets += parseTarget(t) for each call, up to the first that raises
RECURSIVE extendTargets(_)
extendTargets(calls) ==
    IF calls = <<>> THEN [raised |-> FALSE, value |-> <<>>]
    ELSE LET r == parseTarget(Head(calls)) IN
         IF r.raised THEN [raised |-> TRUE, value |-> <<>>]
         ELSE LET rest == extendTargets(Tail(calls)) IN
              [raised |-> rest.raised, value |-> r.value \o rest.value]

(***************************************************************************)
(* Headers (lines 134-141).                                                *)
(***************************************************************************)
\* re.split('^(.+):\s{1,}(.+)$', h) without its empty parts: the pattern
\* matches from the start of h to its end, or to just before a last newline;
\* '.' is any character but a newline, and both '.+' and '\s{1,}' take as
\* much as they can
headerSplit(h) ==
    LET e == IF h # <<>> /\ h[Len(h)] = "\n" THEN Len(h) - 1 ELSE Len(h)
        noNewline(a, b) == \A i \in a..b : h[i] # "\n"
        matches(i, k) == /\ h[i] = ":"
                         /\ i >= 2
                         /\ noNewline(1, i - 1)
                         /\ i + k + 1 <= e
                         /\ \A j \in (i + 1)..(i + k) : h[j] \in whitespace
                         /\ noNewline(i + k + 1, e)
        colons == { i \in 1..Len(h) : \E k \in 1..Len(h) : matches(i, k) }
    IN  IF colons = {} THEN (IF h = <<>> THEN <<>> ELSE <<h>>)
        ELSE LET i == CHOOSE x \in colons : \A y \in colons : y <= x
                 k == CHOOSE x \in 1..Len(h) :
                          /\ matches(i, x)
                          /\ \A y \in 1..Len(h) : matches(i, y) => y <= x
             IN  <<SubSeq(h, 1, i - 1), SubSeq(h, i + k + 1, e)>>
                 \o (IF e < Len(h) THEN <<SubSeq(h, e + 1, Len(h))>> ELSE <<>>)

\* parseHeader that takes what does not split in two as a header without value
parseHeader_NoError(h) ==
    LET parts == headerSplit(h) IN
    IF Len(parts) = 2
    THEN [raised |-> FALSE, value |-> parts]
    ELSE [raised |-> FALSE, value |-> <<h, <<>>>>]

parseHeader(h) ==
    LET parts == headerSplit(h) IN
    IF Len(parts) = 2
    THEN [raised |-> FALSE, value |-> parts]
    ELSE [raised |-> TRUE, value |-> <<>>]

\* the calls parseHeader(...) of lines 302 and 306 over the values hs of
\* args.http_headers, in order: the lines of a file as read, or the value
RECURSIVE headerCalls(_)
headerCalls(hs) ==
    IF hs = <<>> THEN <<>>
    ELSE (IF isFile(Head(hs)) THEN files[Head(hs)] ELSE <<Head(hs)>>)
         \o headerCalls(Tail(hs))

\* dict[key] = value
setitem(dict, key, value) ==
    [k \in DOMAIN dict \cup {key} |-> IF k = key THEN value ELSE dict[k]]

\* headers[key] = value for each call, from the dict d on, up to the first
\* call that raises
RECURSIVE setHeaders(_, _)
setHeaders(d, calls) ==
    IF calls = <<>> THEN [raised |-> FALSE, value |-> d]
    ELSE LET r == parseHeader(Head(calls)) IN
         IF r.raised THEN [raised |-> TRUE, value |-> d]
         ELSE setHeaders(setitem(d, r.value[1], r.value[2]), Tail(calls))

(***************************************************************************)
(* Main logic.  The state after parse_args (line 242).                     *)
(***************************************************************************)
Init ==
    /\ proxy_urls \in SeqsUpTo(ProxyArgValues, 1, MaxProxyArgs)
    /\ display_failures \in BOOLEAN
    /\ process_count \in 1..MaxWindow
    /\ no_assume_http = TRUE
    /\ no_assume_https = TRUE
    /\ target_arg = <<>>
    /\ headers = <<>>
    /\ infile = <<>>
    /\ targets = <<>>
    /\ pc = "proxies"
    /\ exc = "None"
    /\ proxies = <<>>
    /\ pi = 1
    /\ ti = 1
    /\ tasks = <<>>
    /\ results = <<>>
    /\ si = 1
    /\ to_del = <<>>
    /\ handed = <<>>
    /\ stdout = <<>>

args == <<display_failures, process_count, no_assume_http, no_assume_https, target_arg>>
sending == <<pi, ti, tasks, results, si, to_del, handed, stdout>>

In(x, list) == \E i \in 1..Len(list) : list[i] = x

\* lines 254-258 and 267-271: the next value of args.proxy_urls; a file name
\* opens the file, any other value is parsed as one proxy
LoadProxyArg ==
    /\ pc = "proxies"
    /\ proxy_urls # <<>>
    /\ LET p == Head(proxy_urls) IN
       IF isFile(p)
       THEN /\ infile' = files[p]
            /\ proxy_urls' = Tail(proxy_urls)
            /\ pc' = "proxy_file"
            /\ UNCHANGED <<exc, proxies>>
       ELSE LET r == parseProxy(p) IN
            IF r.raised
            THEN /\ pc' = "aborted"
                 /\ exc' = "AssertionError"
                 /\ UNCHANGED <<proxy_urls, infile, proxies>>
            ELSE LET scheme == r.value[1]
                     proxy == PyDict(scheme, PyStr(r.value[2]))
                 IN  /\ proxies' = IF In(proxy, proxies)
                                   THEN proxies
                                   ELSE Append(proxies, PyDict(scheme, proxy))
                     /\ proxy_urls' = Tail(proxy_urls)
                     /\ UNCHANGED <<pc, exc, infile>>
    /\ UNCHANGED <<args, headers, targets, sending>>

\* lines 260-264: the next line of the open file
LoadProxyLine ==
    /\ pc = "proxy_file"
    /\ infile # <<>>
    /\ LET r == parseProxy(strip(Head(infile))) IN
       IF r.raised
       THEN /\ pc' = "aborted"
            /\ exc' = "AssertionError"
            /\ UNCHANGED <<infile, proxies>>
       ELSE LET scheme == r.value[1]
                proxy == PyDict(scheme, PyStr(r.value[2]))
            IN  /\ proxies' = IF In(proxy, proxies)
                              THEN proxies
                              ELSE Append(proxies, proxy)
                /\ infile' = Tail(infile)
                /\ UNCHANGED <<pc, exc>>
    /\ UNCHANGED <<args, headers, proxy_urls, targets, sending>>

\* line 259: the end of the with block, when the file has no more lines
CloseProxyFile ==
    /\ pc = "proxy_file"
    /\ infile = <<>>
    /\ pc' = "proxies"
    /\ UNCHANGED <<args, headers, proxy_urls, infile, targets, exc, proxies, sending>>

\* lines 276-290: the targets are loaded once all proxies are; the
\* ValueError of line 151 ends the run
LoadTargets ==
    /\ pc = "proxies"
    /\ proxy_urls = <<>>
    /\ \E ts \in SeqsUpTo(TargetArgValues, 1, MaxTargets) :
           LET r == extendTargets(targetCalls(ts)) IN
           /\ targets' = targets \o r.value
           /\ IF r.raised
              THEN pc' = "aborted" /\ exc' = "ValueError"
              ELSE pc' = "targets_done" /\ exc' = exc
    /\ UNCHANGED <<args, headers, proxy_urls, infile, proxies, sending>>

\* lines 294-308: the headers are loaded; the AssertionError of line 140
\* ends the run
LoadHeaders ==
    /\ pc = "targets_done"
    /\ \E hs \in SeqsUpTo(HeaderArgValues, 1, MaxHeaders) :
           LET r == setHeaders(<<>>, headerCalls(hs)) IN
           /\ headers' = r.value
           /\ IF r.raised
              THEN pc' = "aborted" /\ exc' = "AssertionError"
              ELSE pc' = "headers_done" /\ exc' = exc
    /\ UNCHANGED <<args, proxy_urls, infile, targets, proxies, sending>>

\* lines 316-322: the pool is made, results = []
BeginSending ==
    /\ pc = "headers_done"
    /\ pc' = "for"
    /\ pi' = 1
    /\ ti' = 1
    /\ results' = <<>>
    /\ UNCHANGED <<args, headers, proxy_urls, infile, targets, exc, proxies,
                   tasks, si, to_del, handed, stdout>>

loading == <<proxy_urls, infile, targets, proxies>>

\* list.index(x): the first position of x
RECURSIVE index(_, _)
index(list, x) ==
    IF Head(list) = x THEN 1 ELSE 1 + index(Tail(list), x)

\* del(list[i])
del(list, i) == SubSeq(list, 1, i - 1) \o SubSeq(list, i + 1, Len(list))

\* the deletion taking as many results from the front as were reported
delAll_FromFront(list, dels) == SubSeq(list, Len(dels) + 1, Len(list))

\* lines 345-346: for res in to_del: del(results[results.index(res)])
RECURSIVE delAll(_, _)
delAll(list, dels) ==
    IF dels = <<>> THEN list
    ELSE delAll(del(list, index(list, Head(dels))), Tail(dels))

\* AsyncResult.ready() and AsyncResult.get() of a result that is ready
ready(res) == tasks[res].ready
get(res) == tasks[res].value

\* lines 325-331: the next (proxy, target) pair and the scheme gate
NextPair ==
    /\ pc = "for"
    /\ IF pi > Len(proxies)
       THEN /\ pc' = "drain"
            /\ UNCHANGED <<exc, pi, ti>>
       ELSE IF ti > Len(targets)
       THEN /\ pi' = pi + 1
            /\ ti' = 1
            /\ UNCHANGED <<pc, exc>>
       ELSE LET c == compareSchemes(proxies[pi].value, targets[ti]) IN
            IF c.raised
            THEN /\ pc' = "aborted"
                 /\ exc' = "TypeError"
                 /\ UNCHANGED <<pi, ti>>
            ELSE IF ~c.value
            THEN /\ ti' = ti + 1
                 /\ UNCHANGED <<pc, exc, pi>>
            ELSE /\ pc' = "while"
                 /\ UNCHANGED <<exc, pi, ti>>
    /\ UNCHANGED <<args, headers, loading, tasks, results, si, to_del, handed, stdout>>

\* the while loop of line 334 never entered
WindowCheck_NoWait ==
    /\ pc = "while"
    /\ pc' = "submit"
    /\ UNCHANGED <<args, headers, loading, exc, pi, ti, tasks, results, si, to_del, handed, stdout>>

\* the while loop of line 334 entered whenever a result is outstanding
WindowCheck_ScansAlways ==
    /\ pc = "while"
    /\ IF results # <<>>
       THEN /\ pc' = "scan"
            /\ to_del' = <<>>
            /\ si' = 1
       ELSE /\ pc' = "submit"
            /\ UNCHANGED <<to_del, si>>
    /\ UNCHANGED <<args, headers, loading, exc, pi, ti, tasks, results, handed, stdout>>

\* line 334 (and 337): the test of the while loop
WindowCheck ==
    /\ pc = "while"
    /\ IF Len(results) = process_count
       THEN /\ pc' = "scan"
            /\ to_del' = <<>>
            /\ si' = 1
       ELSE /\ pc' = "submit"
            /\ UNCHANGED <<to_del, si>>
    /\ UNCHANGED <<args, headers, loading, exc, pi, ti, tasks, results, handed, stdout>>

\* the scan without the test of line 339
ScanItem_IgnoresReady ==
    /\ pc = "scan"
    /\ si <= Len(results)
    /\ LET res == results[si] IN
       /\ stdout' = IF ready(res)
                     THEN stdout \o printResult(get(res), display_failures).lines
                     ELSE stdout
       /\ handed' = Append(handed, [res |-> res, out |-> get(res), at |-> "scan"])
       /\ to_del' = Append(to_del, res)
       /\ si' = si + 1
    /\ UNCHANGED <<args, headers, loading, pc, exc, pi, ti, tasks, results>>

\* lines 338-341: one iteration of `for res in results`
ScanItem ==
    /\ pc = "scan"
    /\ si <= Len(results)
    /\ LET res == results[si] IN
       IF ready(res)
       THEN LET out == printResult(get(res), display_failures) IN
            IF out.raised
            THEN /\ pc' = "aborted"
                 /\ exc' = "TypeError"
                 /\ UNCHANGED <<si, to_del, handed, stdout>>
            ELSE /\ stdout' = stdout \o out.lines
                 /\ handed' = Append(handed, [res |-> res, out |-> get(res), at |-> "scan"])
                 /\ to_del' = Append(to_del, res)
                 /\ si' = si + 1
                 /\ UNCHANGED <<pc, exc>>
       ELSE /\ si' = si + 1
            /\ UNCHANGED <<pc, exc, to_del, handed, stdout>>
    /\ UNCHANGED <<args, headers, loading, pi, ti, tasks, results>>

\* the scan without the deletion of lines 344-347
DeleteComplete_KeepsResults ==
    /\ pc = "scan"
    /\ si > Len(results)
    /\ to_del' = <<>>
    /\ si' = 1
    /\ pc' = IF Len(results) < process_count THEN "submit" ELSE "sleep"
    /\ UNCHANGED <<args, headers, loading, exc, pi, ti, tasks, results, handed, stdout>>

\* lines 344-353: after the scan, delete the reported results; break or sleep
DeleteComplete ==
    /\ pc = "scan"
    /\ si > Len(results)
    /\ results' = delAll(results, to_del)
    /\ to_del' = <<>>
    /\ si' = 1
    /\ pc' = IF Len(results') < process_count THEN "submit" ELSE "sleep"
    /\ UNCHANGED <<args, headers, loading, exc, pi, ti, tasks, handed, stdout>>

\* line 353: sleep(.5), then the while test again
PollSleep ==
    /\ pc = "sleep"
    /\ pc' = "while"
    /\ UNCHANGED <<args, headers, loading, exc, sending>>

\* lines 356-360: results.append(pool.apply_async(genericRequestsCallback, ...))
Submit ==
    /\ pc = "submit"
    /\ tasks' = Append(tasks, [proxy |-> proxies[pi], target |-> targets[ti],
                               pi |-> pi, ti |-> ti,
                               ready |-> FALSE, outcome |-> NoOutcome,
                               value |-> <<>>])
    /\ results' = Append(results, Len(tasks) + 1)
    /\ pc' = "pace"
    /\ UNCHANGED <<args, headers, loading, exc, pi, ti, si, to_del, handed, stdout>>

\* line 362: sleep(.25), then the next target
SubmitDelay ==
    /\ pc = "pace"
    /\ ti' = ti + 1
    /\ pc' = "for"
    /\ UNCHANGED <<args, headers, loading, exc, pi, tasks, results, si, to_del, handed, stdout>>

\* a pool worker finishes one call of genericRequestsCallback
Complete(res, outcome) ==
    /\ pc \notin {"aborted", "done"}
    /\ res \in 1..Len(tasks)
    /\ ~tasks[res].ready
    /\ tasks' = [tasks EXCEPT
                   ![res].ready = TRUE,
                   ![res].outcome = outcome,
                   ![res].value = genericRequestsCallback(tasks[res].proxy,
                                                          tasks[res].target, outcome)]
    /\ UNCHANGED <<args, headers, loading, pc, exc, pi, ti, results, si, to_del, handed, stdout>>

\* the drain loop without the report of lines 370-372
DrainStep_NeverReports ==
    /\ pc = "drain"
    /\ results # <<>>
    /\ pc' = "drain_sleep"
    /\ UNCHANGED <<args, headers, loading, exc, sending>>

\* the drain loop taking any ready result instead of results[0]
DrainStep_AnyReady ==
    /\ pc = "drain"
    /\ results # <<>>
    /\ IF \E i \in 1..Len(results) : ready(results[i])
       THEN \E i \in 1..Len(results) :
                /\ ready(results[i])
                /\ stdout' = stdout \o printResult(get(results[i]), display_failures).lines
                /\ handed' = Append(handed, [res |-> results[i], out |-> get(results[i]),
                                             at |-> "drain"])
                /\ results' = del(results, i)
                /\ pc' = IF results' # <<>> THEN "drain_sleep" ELSE "drain"
       ELSE /\ pc' = "drain_sleep"
            /\ UNCHANGED <<results, handed, stdout>>
    /\ UNCHANGED <<args, headers, loading, exc, pi, ti, tasks, si, to_del>>

\* lines 366-374: one iteration of `while results`
DrainStep ==
    /\ pc = "drain"
    /\ results # <<>>
    /\ LET result == results[1] IN
       IF ready(result)
       THEN LET out == printResult(get(result), display_failures) IN
            IF out.raised
            THEN /\ pc' = "aborted"
                 /\ exc' = "TypeError"
                 /\ UNCHANGED <<results, handed, stdout>>
            ELSE /\ stdout' = stdout \o out.lines
                 /\ handed' = Append(handed, [res |-> result, out |-> get(result),
                                              at |-> "drain"])
                 /\ results' = del(results, index(results, result))
                 /\ pc' = IF results' # <<>> THEN "drain_sleep" ELSE "drain"
                 /\ exc' = exc
       ELSE /\ pc' = "drain_sleep"
            /\ UNCHANGED <<exc, results, handed, stdout>>
    /\ UNCHANGED <<args, headers, loading, pi, ti, tasks, si, to_del>>

\* line 374: sleep(.5), then the while test again
DrainSleep ==
    /\ pc = "drain_sleep"
    /\ pc' = "drain"
    /\ UNCHANGED <<args, headers, loading, exc, sending>>

\* the end of the run without the test of line 366
Finish_WithoutDraining ==
    /\ pc = "drain"
    /\ pc' = "done"
    /\ UNCHANGED <<args, headers, loading, exc, sending>>

\* lines 366 and 375-379: results is empty; close and join the pool
Finish ==
    /\ pc = "drain"
    /\ results = <<>>
    /\ pc' = "done"
    /\ UNCHANGED <<args, headers, loading, exc, sending>>

Worker == \E res \in 1..Len(tasks) : \E outcome \in Outcomes : Complete(res, outcome)

Main ==
    \/ LoadProxyArg
    \/ LoadProxyLine
    \/ CloseProxyFile
    \/ LoadTargets
    \/ LoadHeaders
    \/ BeginSending
    \/ NextPair
    \/ WindowCheck
    \/ ScanItem
    \/ DeleteComplete
    \/ PollSleep
    \/ Submit
    \/ SubmitDelay
    \/ DrainStep
    \/ DrainSleep
    \/ Finish

Next == Main \/ Worker

Spec == Init /\ [][Next]_vars

\* the main thread always takes its next step, and every probe completes
FairSpec == Spec /\ WF_vars(Main) /\ WF_vars(Worker)

(***************************************************************************)
(* parseTarget on its own: one call `targets += parseTarget(t)` (line 289) *)
(* for every value of t and every setting of the two assumption flags.     *)
(***************************************************************************)
TargetInit ==
    /\ target_arg \in RawTargets
    /\ no_assume_http \in BOOLEAN
    /\ no_assume_https \in BOOLEAN
    /\ display_failures = FALSE
    /\ process_count = 1
    /\ headers = <<>>
    /\ proxy_urls = <<>>
    /\ infile = <<>>
    /\ targets = <<>>
    /\ pc = "parseTarget"
    /\ exc = "None"
    /\ proxies = <<>>
    /\ pi = 1
    /\ ti = 1
    /\ tasks = <<>>
    /\ results = <<>>
    /\ si = 1
    /\ to_del = <<>>
    /\ handed = <<>>
    /\ stdout = <<>>

\* line 289; the ValueError of line 151 is not caught
ParseTarget ==
    /\ pc = "parseTarget"
    /\ LET r == parseTarget(target_arg) IN
       IF r.raised
       THEN /\ pc' = "aborted"
            /\ exc' = "ValueError"
            /\ targets' = targets
       ELSE /\ pc' = "parsed"
            /\ exc' = exc
            /\ targets' = targets \o r.value
    /\ UNCHANGED <<args, headers, proxy_urls, infile, proxies, sending>>

TargetSpec == TargetInit /\ [][ParseTarget]_vars

(***************************************************************************)
(* Properties.                                                             *)
(***************************************************************************)
Submitted == 1..Len(tasks)
Reported == { handed[k].res : k \in 1..Len(handed) }
Outstanding == Submitted \ Reported

\* the work items submitted for position (i, j) of proxies x targets
SubmittedFor(i, j) == { k \in Submitted : tasks[k].pi = i /\ tasks[k].ti = j }

\* the scheme gate of line 330 lets the pair at position (i, j) through
Gate(i, j) ==
    LET c == compareSchemes(proxies[i].value, targets[j]) IN ~c.raised /\ c.value

\* the main thread has ended, normally or with an exception, after the
\* proxies and targets were loaded
RunOver == pc = "done" \/ (pc = "aborted" /\ exc = "TypeError")

\* C1: with window = process_count >= 1, the work items submitted and not yet
\* reported, and the list `results` that holds them, never number more than
\* process_count, and a work item is only submitted when `results` holds
\* fewer than process_count
C1_WindowBound ==
    /\ process_count >= 1
    /\ Cardinality(Outstanding) <= process_count
    /\ Len(results) <= process_count
    /\ pc = "submit" => Len(results) < process_count

\* C1: the window is full, every item in it is pending, and the main thread
\* sleeps with a pair waiting to be submitted
C1_Witness ==
    /\ pc = "sleep"
    /\ process_count = 2
    /\ Len(results) = process_count
    /\ \A i \in 1..Len(results) : ~ready(results[i])

\* C2: no position of proxies x targets is submitted twice, a position the
\* scheme gate rejects is never submitted, and when the run is over every
\* position the scheme gate accepts has been submitted exactly once
C2_EachCompatiblePairOnce ==
    \A i \in 1..Len(proxies) : \A j \in 1..Len(targets) :
        /\ Cardinality(SubmittedFor(i, j)) <= 1
        /\ ~Gate(i, j) => SubmittedFor(i, j) = {}
        /\ (RunOver /\ Gate(i, j)) => Cardinality(SubmittedFor(i, j)) = 1

\* C3: a work item is handed to printResult at most once, with the one result
\* its request produced; a reported item is in `results` only while the scan
\* that reported it is still running (it is in to_del, and deleted when the
\* scan ends), and never otherwise
C3_ReportedOnce ==
    /\ \A k, l \in 1..Len(handed) : handed[k].res = handed[l].res => k = l
    /\ \A k \in 1..Len(handed) :
          /\ handed[k].res \in Submitted
          /\ handed[k].out = tasks[handed[k].res].value
          /\ In(handed[k].res, results) => pc = "scan" /\ In(handed[k].res, to_del)
    /\ \A i, j \in 1..Len(results) : results[i] = results[j] => i = j

\* C3: one item was reported and removed by a scan of the full window and
\* another by the drain loop
C3_Witness ==
    /\ \E k \in 1..Len(handed) : handed[k].at = "scan" /\ ~In(handed[k].res, results)
    /\ \E k \in 1..Len(handed) : handed[k].at = "drain" /\ ~In(handed[k].res, results)

DoneAllReported ==
    /\ pc = "done"
    /\ results = <<>>
    /\ Outstanding = {}
    /\ Len(handed) = Len(tasks)

\* C4: once the proxies and targets are loaded and sending begins, the main
\* thread eventually ends normally, with `results` empty and as many results
\* reported as work items submitted
C4_EventuallyDone == (pc = "for") ~> DoneAllReported

\* C5: every step that hands a work item's result to printResult, in the scan
\* and in the drain loop, starts in a state where that item is ready
C5_ReportAfterReady ==
    [][\A k \in 1..Len(handed') :
          k > Len(handed) => /\ handed'[k].res \in Submitted
                             /\ tasks[handed'[k].res].ready]_vars

\* C5: a scan reported a ready item and passed over one that is not ready
C5_Witness ==
    /\ pc = "scan"
    /\ \E i \in 1..Len(results) : i < si /\ In(results[i], to_del)
    /\ \E i \in 1..Len(results) : i < si /\ ~ready(results[i])

\* the scheme and the address of a proxy entry: the key of the dict, and the
\* proxy string it was made from
SchemeOf(e) == e.key
AddressOf(e) == IF e.value.type = "str" THEN e.value.s ELSE e.value.value.s

\* C6: no two entries of the proxy list have the same (scheme, address),
\* whatever mix of literal values and files the entries were loaded from
C6_NoDuplicateProxies ==
    \A i, j \in 1..Len(proxies) :
        (SchemeOf(proxies[i]) = SchemeOf(proxies[j])
            /\ AddressOf(proxies[i]) = AddressOf(proxies[j])) => i = j

\* C7: every entry of the proxy list has the scheme "http" or "https" and, as
\* its address, a string that begins with that scheme and "://"
C7_ProxyEntriesWellFormed ==
    \A i \in 1..Len(proxies) :
        /\ proxies[i].key \in {s_http, s_https}
        /\ proxies[i].value.type = "str"
        /\ startswith(proxies[i].value.s, proxies[i].key \o s_sep)

\* the leading scheme token of a string: "https" if it begins with it,
\* else "http" if it begins with it, else none
LeadingScheme(s) ==
    IF Len(s) >= 5 /\ SubSeq(s, 1, 5) = s_https THEN s_https
    ELSE IF Len(s) >= 4 /\ SubSeq(s, 1, 4) = s_http THEN s_http
    ELSE <<>>

\* C8: for every loaded proxy and every target string, the scheme gate raises
\* no error and answers true exactly when the proxy's address and the target
\* both have a leading scheme token and the two tokens are equal
C8_CompatibleIffSameScheme ==
    /\ exc # "TypeError"
    /\ \A i \in 1..Len(proxies) :
         \A t \in TargetValues \cup {s_https \o s_sep \o <<"t">>} :
            LET c == compareSchemes(proxies[i].value, t)
                p == LeadingScheme(AddressOf(proxies[i]))
            IN  /\ ~c.raised
                /\ c.value <=> (p # <<>> /\ LeadingScheme(t) # <<>> /\ p = LeadingScheme(t))

\* C9: the result of a finished request carries the proxy and the target it
\* was submitted with; if the request raised or answered 403 it is a failure
\* with an error and no response, and for any other status it is a success
\* with the response and no error
C9_ResultClassification ==
    \A k \in Submitted :
        tasks[k].ready =>
            LET out == tasks[k].value
                o == tasks[k].outcome
            IN  /\ out[2] = tasks[k].proxy
                /\ out[2] = proxies[tasks[k].pi]
                /\ out[3] = tasks[k].target
                /\ out[3] = targets[tasks[k].ti]
                /\ IF o.raised \/ o.status_code = 403
                   THEN out[1] = FALSE /\ out[4] = None /\ out[5].type = "Exception"
                   ELSE /\ out[1] = TRUE
                        /\ out[4] = [type |-> "Response", status_code |-> o.status_code]
                        /\ out[5] = None

\* C9: a request that raised, one answered 403 and one answered 404 have
\* finished
C9_Witness ==
    /\ \E k \in Submitted : tasks[k].ready /\ tasks[k].outcome.raised
    /\ \A s \in {403, 404} :
          \E k \in Submitted : /\ tasks[k].ready
                               /\ ~tasks[k].outcome.raised
                               /\ tasks[k].outcome.status_code = s

\* the prefixes of the lines the records handed so far call for, in order
RECURSIVE ExpectedPrefixes(_)
ExpectedPrefixes(h) ==
    IF h = <<>> THEN <<>>
    ELSE LET first == IF Head(h).out[1] THEN <<"SUCCESS: ">>
                      ELSE IF display_failures THEN <<"FAILURE: ">>
                      ELSE <<>>
         IN  first \o ExpectedPrefixes(Tail(h))

\* C10: standard output holds, in the order the records were handed to
\* printResult, one SUCCESS line per successful record, one FAILURE line per
\* failed record if display_failures is set, and nothing else
C10_OneLinePerRecord ==
    /\ Len(stdout) = Len(ExpectedPrefixes(handed))
    /\ \A k \in 1..Len(stdout) : stdout[k][1] = ExpectedPrefixes(handed)[k]

\* C10: without display_failures a failed record was handed over and printed
\* nothing, and a successful one printed its line
C10_Witness ==
    /\ ~display_failures
    /\ \E k \in 1..Len(handed) : ~handed[k].out[1]
    /\ \E k \in 1..Len(handed) : handed[k].out[1]
    /\ Len(stdout) >= 1

(***************************************************************************)
(* Target expansion (TargetSpec).                                          *)
(***************************************************************************)
\* the addresses of the blocks among RawTargets, in ascending order
Block ==
    (s_net \o <<"0", "/", "3", "0">> :>
        << s_net \o <<"0">>, s_net \o <<"1">>, s_net \o <<"2">>, s_net \o <<"3">> >>)
    @@ (s_net \o <<"5", "/", "3", "1">> :> << s_net \o <<"4">>, s_net \o <<"5">> >>)
    @@ (s_net \o <<"9", "/", "3", "2">> :> << s_net \o <<"9">> >>)
    @@ (s_net \o <<"1">> :> << s_net \o <<"1">> >>)

\* http://<addr> where http-assumption is enabled, then https://<addr> where
\* https-assumption is enabled
Assumed(addr) ==
    (IF ~no_assume_http THEN <<s_http \o s_sep \o addr>> ELSE <<>>)
    \o (IF ~no_assume_https THEN <<s_https \o s_sep \o addr>> ELSE <<>>)

RECURSIVE AssumedAll(_)
AssumedAll(addrs) ==
    IF addrs = <<>> THEN <<>> ELSE Assumed(Head(addrs)) \o AssumedAll(Tail(addrs))

Enabled == (IF ~no_assume_http THEN 1 ELSE 0) + (IF ~no_assume_https THEN 1 ELSE 0)

\* C11: for a bare IPv4 address or an IPv4 CIDR block, the call returns, for
\* each address of the block in ascending order (network and broadcast
\* address included), http://<addr> if http-assumption is enabled followed by
\* https://<addr> if https-assumption is enabled: k addresses give 2k targets
\* with both enabled, k with one, none with both disabled.
C11_BlockExpansion ==
    (pc # "parseTarget" /\ target_arg \in DOMAIN Block) =>
        /\ pc = "parsed"
        /\ targets = AssumedAll(Block[target_arg])
        /\ Len(targets) = Enabled * Len(Block[target_arg])

\* 10.0.0.0/30 with both assumptions enabled has given its 8 targets
C11_Witness ==
    /\ pc = "parsed"
    /\ target_arg = s_net \o <<"0", "/", "3", "0">>
    /\ ~no_assume_http /\ ~no_assume_https
    /\ Len(targets) = 8

\* the values of RawTargets that are neither a block nor a bare address and
\* do not end in "/" and at most two digits
Literals ==
    { <<"t">>, <<"t", "/", "x">>, <<"h", "t", "t", "p", "t">>,
      s_http \o s_sep \o <<"t">>, s_https \o s_sep \o <<"t">>,
      s_net \o <<"2", "5", "6">>, s_net \o <<"0", "/", "2", "5", "5">>,
      s_net \o <<"1", "\n">> }

BeginsWithHttp(raw) == Len(raw) >= 4 /\ SubSeq(raw, 1, 4) = <<"h", "t", "t", "p">>

\* C12: for a value handled as a literal URL or hostname, the call returns
\* exactly [raw] if raw begins with "http" (so "https://x" never gains an
\* "http://" variant); otherwise http://raw if http-assumption is enabled,
\* then https://raw if https-assumption is enabled, and [raw] unchanged when
\* neither fires.
C12_LiteralExpansion ==
    (pc # "parseTarget" /\ target_arg \in Literals) =>
        /\ pc = "parsed"
        /\ targets = IF BeginsWithHttp(target_arg) \/ Enabled = 0
                     THEN <<target_arg>>
                     ELSE Assumed(target_arg)

\* "https://t" with http-assumption enabled came back alone
C12_Witness ==
    /\ pc = "parsed"
    /\ target_arg = s_https \o s_sep \o <<"t">>
    /\ ~no_assume_http
    /\ targets = <<target_arg>>

(***************************************************************************)
(* Parse errors (Spec).                                                    *)
(***************************************************************************)
ParseErrors == {"AssertionError", "ValueError"}

\* s begins with http:// or https://, in any case, and goes on
ProxyStringOk(s) ==
    \E p \in {s_http \o s_sep, s_https \o s_sep} :
        Len(s) > Len(p) /\ Lowered(SubSeq(s, 1, Len(p))) = p

\* t ends in "/" and at most two digits, the form taken as a CIDR block
TakenAsCidr(t) ==
    \E k \in 0..2 :
        /\ Len(t) > k
        /\ t[Len(t) - k] = "/"
        /\ \A i \in (Len(t) - k + 1)..Len(t) : isDigit(t[i])

\* C13: a malformed proxy string, a malformed header string or a target
\* taken as a CIDR block that is not an IPv4 network ends the run before any
\* work item is submitted: a run ended by a parse error has issued no probe
\* and reported no result, and a run that has submitted a work item loaded
\* only well-formed proxies, no target of the CIDR form as a literal, and
\* only headers with a name and a value.
C13_ParseErrorBeforeAnyProbe ==
    /\ (pc = "aborted" /\ exc \in ParseErrors) =>
            tasks = <<>> /\ results = <<>> /\ handed = <<>> /\ stdout = <<>>
    /\ tasks # <<>> =>
            /\ \A i \in 1..Len(proxies) : ProxyStringOk(AddressOf(proxies[i]))
            /\ \A j \in 1..Len(targets) : ~TakenAsCidr(targets[j])
            /\ \A k \in DOMAIN headers : k # <<>> /\ headers[k] # <<>>

\* a malformed header ended the run after proxies and targets were loaded
C13_Witness ==
    /\ pc = "aborted"
    /\ exc = "AssertionError"
    /\ proxies # <<>>
    /\ targets # <<>>
    /\ tasks = <<>>

(***************************************************************************)
(* The poll cycles (Spec).  A poll cycle of the drain loop is one          *)
(* iteration of `while results`; a poll cycle of the submit loop is one    *)
(* scan of lines 338-341, item by item.                                    *)
(***************************************************************************)
\* the step is an iteration of the drain loop that did not raise
DrainPoll == pc = "drain" /\ (pc' = "drain_sleep" \/ handed' # handed)

\* the step is the inspection of results[si] by the scan, and did not raise
ScanPoll == pc = "scan" /\ si' = si + 1

ReportedNext == { handed'[k].res : k \in 1..Len(handed') }

\* C14 as stated: every completed work item is reported by the end of the
\* next poll cycle, in the submit loop and in the drain loop, whatever the
\* state of the other outstanding items: a poll cycle of the drain loop ends
\* with every outstanding item that was ready at its start reported, and the
\* scan reports every item it finds ready.
C14_ReportedWithinOnePoll ==
    [][/\ DrainPoll =>
            \A i \in 1..Len(results) : ready(results[i]) => results[i] \in ReportedNext
       /\ ScanPoll => (ready(results[si]) => results[si] \in ReportedNext)]_vars

\* C14, amended: a completed work item is reported in the poll cycle that
\* inspects it: the scan reports every item it finds ready, and a poll cycle
\* of the drain loop reports the head of `results` if it is ready, and
\* nothing else.
C14_ReportedWhenInspected ==
    [][/\ DrainPoll =>
            /\ ready(results[1]) => results[1] \in ReportedNext
            /\ ReportedNext \subseteq Reported \cup {results[1]}
       /\ ScanPoll => (ready(results[si]) => results[si] \in ReportedNext)]_vars

\* a poll cycle of the drain loop has reported the ready head and left
\* another ready item for the next cycle
C14_Witness ==
    /\ pc = "drain_sleep"
    /\ handed # <<>>
    /\ handed[Len(handed)].at = "drain"
    /\ results # <<>>
    /\ ready(results[1])

\* raw ends in "/n" with n a number of 0..32
EndsInPrefixLength(raw) ==
    \E k \in 1..2 :
        /\ Len(raw) > k
        /\ raw[Len(raw) - k] = "/"
        /\ \A i \in (Len(raw) - k + 1)..Len(raw) : isDigit(raw[i])
        /\ toInt(SubSeq(raw, Len(raw) - k + 1, Len(raw))) <= 32

\* C15: the call takes the CIDR branch iff raw ends in "/n" with n in 0..32;
\* every other raw value that is not a bare IPv4 address (a URL or hostname
\* ending in "/", or "/" and a number above 32) is handled as a literal URL
\* or hostname and yields targets without raising an error.
C15_CidrOnlyForPrefixLength ==
    (pc # "parseTarget" /\ ~EndsInPrefixLength(target_arg)
        /\ target_arg \notin DOMAIN Block) =>
        /\ pc = "parsed"
        /\ targets = IF BeginsWithHttp(target_arg) \/ Enabled = 0
                     THEN <<target_arg>>
                     ELSE Assumed(target_arg)

(***************************************************************************)
(* The drain loop and the phases (Spec).  Work items are numbered in the   *)
(* order of their submission.                                              *)
(***************************************************************************)
\* C16: the drain loop reports in submission order: when it reports an item,
\* every item submitted before it has been reported already (so a ready item
\* that is not the head is not reported while an earlier item is
\* outstanding), and the item it reports is the head of `results`.
C16_DrainInSubmissionOrder ==
    /\ \A k \in 1..Len(handed) :
           handed[k].at = "drain" =>
               \A r \in Submitted :
                   r < handed[k].res => \E j \in 1..(k - 1) : handed[j].res = r
    /\ \A i, j \in 1..Len(results) : i < j => results[i] < results[j]

\* a poll cycle of the drain loop has ended in its sleep with a ready item
\* left unreported behind a head that is not ready
C16_Witness ==
    /\ pc = "drain_sleep"
    /\ Len(results) >= 2
    /\ ~ready(results[1])
    /\ ready(results[2])
    /\ results[2] \notin Reported

\* the step ends a scan: the deletion of lines 344-347 and the test of line 350
ScanEnd == pc = "scan" /\ pc' \in {"submit", "sleep"}

Unreported(r) == r \notin Reported

\* C17: a scan runs only while the count of outstanding items equals the
\* window; it reports every item it finds ready and passes over the others;
\* at its end the reported items are removed and the others stay, unchanged
\* and in the same order; the wait loop is left without a sleep as soon as
\* the count is below the window, and sleeps and scans again otherwise, so
\* that the pending submission waits for an item to complete and be removed.
C17_ScanFrame ==
    /\ [](pc \in {"scan", "sleep"} => Len(results) = process_count)
    /\ [](pc = "submit" => Len(results) < process_count)
    /\ [][/\ ScanPoll =>
               /\ results' = results
               /\ tasks' = tasks
               /\ ready(results[si]) => ReportedNext = Reported \cup {results[si]}
               /\ ~ready(results[si]) => handed' = handed
          /\ ScanEnd =>
               /\ results' = SelectSeq(results, Unreported)
               /\ tasks' = tasks
               /\ handed' = handed
               /\ pc' = "submit" <=> Len(results') < process_count
               /\ pc' = "sleep" => results' = results
          /\ (pc = "sleep" /\ pc' # "sleep") => (pc' = "while" /\ results' = results)
         ]_vars

\* a scan at a window of two has reported and removed the item that was
\* ready and kept the one that is not, and the submission goes ahead
C17_Witness ==
    /\ pc = "submit"
    /\ process_count = 2
    /\ Len(results) = 1
    /\ ~ready(results[1])
    /\ handed # <<>>
    /\ handed[Len(handed)].at = "scan"
    /\ handed[Len(handed)].res > results[1]

\* the phases of the dispatcher, from the place of the main thread
Submitting == pc \in {"for", "while", "scan", "sleep", "submit", "pace"}
Draining == pc \in {"drain", "drain_sleep"}
Done == pc = "done"

SubmittingNext == pc' \in {"for", "while", "scan", "sleep", "submit", "pace"}
DrainingNext == pc' \in {"drain", "drain_sleep"}
DoneNext == pc' = "done"

\* C18: the phase only moves forward, Submitting to Draining to Done;
\* Draining starts only once every (proxy, target) pair has been considered;
\* no work item is submitted in Draining or Done; Done is entered only with
\* no outstanding item.
C18_PhasesForward ==
    /\ [][/\ Submitting => ~DoneNext
          /\ Draining => ~SubmittingNext
          /\ Done => DoneNext
          /\ (Draining \/ Done) => Len(tasks') = Len(tasks)
          /\ (~Draining /\ DrainingNext) => (Submitting /\ pi > Len(proxies))
          /\ (~Done /\ DoneNext) => (Draining /\ results = <<>> /\ Outstanding = {})
         ]_vars
    /\ []((Draining \/ Done) =>
            \A i \in 1..Len(proxies) : \A j \in 1..Len(targets) :
                Gate(i, j) => SubmittedFor(i, j) # {})
    /\ [](Done => (results = <<>> /\ Outstanding = {}))

\* the run is done after reports in both the submit loop and the drain loop
C18_Witness ==
    /\ Done
    /\ \E k \in 1..Len(handed) : handed[k].at = "scan"
    /\ \E k \in 1..Len(handed) : handed[k].at = "drain"

\* the pairs that the scheme gate lets through
CompatiblePairs ==
    { <<i, j>> \in (1..Len(proxies)) \X (1..Len(targets)) : Gate(i, j) }

\* C19: in Submitting a result is reported only by a scan, and a scan runs
\* only with the count of outstanding items equal to the window; so when the
\* compatible pairs are no more than the window, every result that is
\* reported is reported by the drain loop.
C19_NoReportBelowWindow ==
    /\ [][(Submitting /\ handed' # handed) =>
              (pc = "scan" /\ Len(results) = process_count)]_vars
    /\ []((~(pc \in {"proxies", "targets_done", "headers_done"})
           /\ Cardinality(CompatiblePairs) <= process_count) =>
              \A k \in 1..Len(handed) : handed[k].at = "drain")

\* two compatible pairs under a window of two: both results were reported,
\* by the drain loop
C19_Witness ==
    /\ Done
    /\ process_count = 2
    /\ Cardinality(CompatiblePairs) = 2
    /\ Len(handed) = 2
    /\ \A k \in 1..Len(handed) : handed[k].at = "drain"
====
